---- MODULE Spec2Model ----
(***************************************************************************)
(* The Dragon stream cipher, optimised reference implementation            *)
(* (ref/dragon-opt.c): key setup, IV setup, the 16-round keystream sweep,  *)
(* the block calls and the byte adapter.                                   *)
(*                                                                         *)
(* Word width is scaled: a u8 is ByteBits bits wide and a u32 is four u8,  *)
(* so WordBits = 4 * ByteBits.  All u32 arithmetic is modulo 2^WordBits.   *)
(***************************************************************************)
EXTENDS Integers, Sequences, FiniteSets, TLC

----------------------------------------------------------------------------
(* Bounds of the model *)

ByteBits == 2

WordBits == 4 * ByteBits
ByteMod  == 2 ^ ByteBits
WordMod  == 2 ^ WordBits
WordMax  == WordMod - 1

----------------------------------------------------------------------------
(* Constants of ecrypt-sync.h *)

DRAGON_NLFSR_SIZE == 32

DRAGON_BUFFER_SIZE == 16

DRAGON_BUFFER_BYTES == 8 * DRAGON_BUFFER_SIZE

DRAGON_MIXING_STAGES == 16

NlfsrIdx == 0 .. (DRAGON_NLFSR_SIZE - 1)

----------------------------------------------------------------------------
(* u32 arithmetic *)

\* x ^ y on one hex digit
XorDigit ==
    [x \in 0 .. 15 |-> [y \in 0 .. 15 |->
        ((x + y) % 2)
        + 2 * (((x \div 2) + (y \div 2)) % 2)
        + 4 * (((x \div 4) + (y \div 4)) % 2)
        + 8 * (((x \div 8) + (y \div 8)) % 2)]]

\* x ^ y on two hex digits
XorOctet ==
    [x \in 0 .. 255 |-> [y \in 0 .. 255 |->
        XorDigit[x % 16][y % 16] + 16 * XorDigit[x \div 16][y \div 16]]]

\* x ^ y
RECURSIVE Xor(_, _)
Xor(x, y) ==
    IF x < 256 /\ y < 256 THEN XorOctet[x][y]
    ELSE XorOctet[x % 256][y % 256] + 256 * Xor(x \div 256, y \div 256)

Add(x, y) == (x + y) % WordMod

\* the u8 at index i (from 0) of a caller's array; past its end, whatever the
\* memory behind it holds
ByteAt(p, i, mem) == IF i \in DOMAIN p THEN p[i] ELSE mem % ByteMod

\* U8TO32_LITTLE(p + at): the four u8 there, least significant first
U8TO32_LITTLE(p, at, mem) ==
    ByteAt(p, at, mem)
    + ByteMod * (ByteAt(p, at + 1, mem)
    + ByteMod * (ByteAt(p, at + 2, mem)
    + ByteMod * ByteAt(p, at + 3, mem)))

\* the u8 of a u32 stored through a u32 pointer cast, in memory order
U32Byte(w, k, bigEndian) ==
    IF bigEndian THEN (w \div (ByteMod ^ (3 - k))) % ByteMod
    ELSE (w \div (ByteMod ^ k)) % ByteMod

\* the u32 loaded through a u32 pointer cast from four u8 in memory order
U32Load(b0, b1, b2, b3, bigEndian) ==
    IF bigEndian THEN b3 + ByteMod * (b2 + ByteMod * (b1 + ByteMod * b0))
    ELSE b0 + ByteMod * (b1 + ByteMod * (b2 + ByteMod * b3))

----------------------------------------------------------------------------
(* The nonlinear functions of dragon-sboxes.c: fixed maps u32 -> u32 *)

G1(x) == (x * x + 5 * x + 1) % WordMod
G2(x) == (3 * x * x + x + 7) % WordMod
G3(x) == (x * x + 11 * x + 2) % WordMod
H1(x) == (5 * x * x + 3 * x + 13) % WordMod
H2(x) == (x * x + 9 * x + 4) % WordMod
H3(x) == (7 * x * x + x + 19) % WordMod

----------------------------------------------------------------------------
(* DRAGON_OFFSET / DRAGON_NLFSR_WORD: the circular buffer *)

DRAGON_OFFSET(offset, ith_element, state_size) ==
    ((offset + ith_element) % WordMod) % (state_size + 1)

DRAGON_NLFSR_WORD(w, offset, ith_word) ==
    w[DRAGON_OFFSET(offset, ith_word, DRAGON_NLFSR_SIZE - 1)]

\* DRAGON_UPDATE(a, b, c, d, e, f)
\* The six statement lines of DRAGON_UPDATE, on the record r of a .. f.  The
\* three assignments of a line read no variable that the line writes.

\* b ^= a; d ^= c; f ^= e;
UpdateXorIn(r) ==
    [r EXCEPT !.b = Xor(@, r.a), !.d = Xor(@, r.c), !.f = Xor(@, r.e)]

\* c += b; e += d; a += f;
UpdateAddIn(r) ==
    [r EXCEPT !.c = Add(@, r.b), !.e = Add(@, r.d), !.a = Add(@, r.f)]

\* f ^= G2(c); b ^= G3(e); d ^= G1(a);
UpdateG(r) ==
    [r EXCEPT !.f = Xor(@, G2(r.c)), !.b = Xor(@, G3(r.e)), !.d = Xor(@, G1(r.a))]

\* e ^= H3(f); a ^= H1(b); c ^= H2(d);
UpdateH(r) ==
    [r EXCEPT !.e = Xor(@, H3(r.f)), !.a = Xor(@, H1(r.b)), !.c = Xor(@, H2(r.d))]

\* b += e; d += a; f += c;
UpdateAddOut(r) ==
    [r EXCEPT !.b = Add(@, r.e), !.d = Add(@, r.a), !.f = Add(@, r.c)]

\* c ^= b; e ^= d; a ^= f;
UpdateXorOut(r) ==
    [r EXCEPT !.c = Xor(@, r.b), !.e = Xor(@, r.d), !.a = Xor(@, r.f)]

DRAGON_UPDATE(a, b, c, d, e, f) ==
    UpdateXorOut(UpdateAddOut(UpdateH(UpdateG(UpdateAddIn(UpdateXorIn(
        [a |-> a, b |-> b, c |-> c, d |-> d, e |-> e, f |-> f]))))))

----------------------------------------------------------------------------
(* ECRYPT_keysetup.  key is the caller's byte array, 0-indexed. *)

KeyWord(key, idx, mem) == U8TO32_LITTLE(key, idx * 4, mem)

\* keysize == 128: k in 0..3, 12..15, 20..23; k' in 4..7, 16..19, 28..31
KeyLayout128(w, key, mem) ==
    [i \in NlfsrIdx |->
        IF i \in 0 .. 3 THEN KeyWord(key, i, mem)
        ELSE IF i \in 12 .. 15 THEN KeyWord(key, i - 12, mem)
        ELSE IF i \in 20 .. 23 THEN KeyWord(key, i - 20, mem)
        ELSE IF i \in 4 .. 5 THEN KeyWord(key, 2 + (i - 4), mem)
        ELSE IF i \in 16 .. 17 THEN KeyWord(key, 2 + (i - 16), mem)
        ELSE IF i \in 28 .. 29 THEN KeyWord(key, 2 + (i - 28), mem)
        ELSE IF i \in 6 .. 7 THEN KeyWord(key, i - 6, mem)
        ELSE IF i \in 18 .. 19 THEN KeyWord(key, i - 18, mem)
        ELSE IF i \in 30 .. 31 THEN KeyWord(key, i - 30, mem)
        ELSE w[i]]

\* any other keysize: k in 0..7, 8..15, 16..23
KeyLayout256(w, key, mem) ==
    [i \in NlfsrIdx |->
        IF i \in 0 .. 7 THEN KeyWord(key, i, mem)
        ELSE IF i \in 8 .. 15 THEN KeyWord(key, i - 8, mem)
        ELSE IF i \in 16 .. 23 THEN KeyWord(key, i - 16, mem)
        ELSE w[i]]

\* a variant that keys the register for the two supported sizes only
KeysetupWords_Strict(w, key, keysize, mem) ==
    IF keysize = 128 THEN KeyLayout128(w, key, mem)
    ELSE IF keysize = 256 THEN KeyLayout256(w, key, mem)
    ELSE w

KeysetupWords(w, key, keysize, mem) ==
    IF keysize = 128 THEN KeyLayout128(w, key, mem) ELSE KeyLayout256(w, key, mem)

\* a variant that takes the snapshot before the key words are written
ECRYPT_keysetup_SnapshotFirst(c, key, keysize, mem) ==
    [c EXCEPT !.nlfsr_offset = 0,
              !.key_size = keysize,
              !.full_rekeying = 1,
              !.buffer_index = 0,
              !.nlfsr_word = KeysetupWords(c.nlfsr_word, key, keysize, mem),
              !.init_state = c.nlfsr_word]

ECRYPT_keysetup(c, key, keysize, mem) ==
    LET w == KeysetupWords(c.nlfsr_word, key, keysize, mem)
    IN  [c EXCEPT !.nlfsr_offset = 0,
                  !.key_size = keysize,
                  !.full_rekeying = 1,
                  !.buffer_index = 0,
                  !.nlfsr_word = w,
                  !.init_state = w]

----------------------------------------------------------------------------
(* ECRYPT_ivsetup *)

IvWord(iv, idx, mem) == U8TO32_LITTLE(iv, idx * 4, mem)

\* a variant that never restores
IvRestore_Never(c) == c.nlfsr_word

\* the restore of the post-keysetup state
IvRestore(c) ==
    IF c.full_rekeying = 0 THEN c.init_state ELSE c.nlfsr_word

\* a variant that stores the iv in words 24..27 without swapping its halves
IvMerge128_NoSwap(w, iv, mem) ==
    [i \in NlfsrIdx |->
        IF i \in 8 .. 11 THEN IvWord(iv, i - 8, mem)
        ELSE IF i \in 20 .. 23 THEN Xor(w[i], IvWord(iv, i - 20, mem))
        ELSE IF i \in 28 .. 31 THEN Xor(w[i], IvWord(iv, i - 28, mem))
        ELSE IF i \in 4 .. 5 THEN Xor(w[i], IvWord(iv, 2 + (i - 4), mem))
        ELSE IF i \in 12 .. 13 THEN Xor(w[i], IvWord(iv, 2 + (i - 12), mem))
        ELSE IF i \in 24 .. 27 THEN IvWord(iv, i - 24, mem)
        ELSE IF i \in 6 .. 7 THEN Xor(w[i], IvWord(iv, i - 6, mem))
        ELSE IF i \in 14 .. 15 THEN Xor(w[i], IvWord(iv, i - 14, mem))
        ELSE w[i]]

IvMerge128(w, iv, mem) ==
    [i \in NlfsrIdx |->
        IF i \in 8 .. 11 THEN IvWord(iv, i - 8, mem)
        ELSE IF i \in 20 .. 23 THEN Xor(w[i], IvWord(iv, i - 20, mem))
        ELSE IF i \in 28 .. 31 THEN Xor(w[i], IvWord(iv, i - 28, mem))
        ELSE IF i \in 4 .. 5 THEN Xor(w[i], IvWord(iv, 2 + (i - 4), mem))
        ELSE IF i \in 12 .. 13 THEN Xor(w[i], IvWord(iv, 2 + (i - 12), mem))
        ELSE IF i \in 24 .. 25 THEN IvWord(iv, 2 + (i - 24), mem)
        ELSE IF i \in 6 .. 7 THEN Xor(w[i], IvWord(iv, i - 6, mem))
        ELSE IF i \in 14 .. 15 THEN Xor(w[i], IvWord(iv, i - 14, mem))
        ELSE IF i \in 26 .. 27 THEN IvWord(iv, i - 26, mem)
        ELSE w[i]]

\* a variant that xors the iv into words 24..31 instead of storing it there
IvMerge256_XorTail(w, iv, mem) ==
    [i \in NlfsrIdx |->
        IF i \in 8 .. 15 THEN Xor(w[i], IvWord(iv, i - 8, mem))
        ELSE IF i \in 16 .. 23 THEN Xor(w[i], Xor(IvWord(iv, i - 16, mem), WordMax))
        ELSE IF i \in 24 .. 31 THEN Xor(w[i], IvWord(iv, i - 24, mem))
        ELSE w[i]]

IvMerge256(w, iv, mem) ==
    [i \in NlfsrIdx |->
        IF i \in 8 .. 15 THEN Xor(w[i], IvWord(iv, i - 8, mem))
        ELSE IF i \in 16 .. 23 THEN Xor(w[i], Xor(IvWord(iv, i - 16, mem), WordMax))
        ELSE IF i \in 24 .. 31 THEN IvWord(iv, i - 24, mem)
        ELSE w[i]]

IvMerge(w, key_size, iv, mem) ==
    IF key_size = 128 THEN IvMerge128(w, iv, mem) ELSE IvMerge256(w, iv, mem)

\* a, b, c, d of a mixing stage (i = 0 .. 3)
MixWord(m, i) ==
    Xor(Xor(DRAGON_NLFSR_WORD(m.w, m.offset, i),
            DRAGON_NLFSR_WORD(m.w, m.offset, 24 + i)),
        DRAGON_NLFSR_WORD(m.w, m.offset, 28 + i))

\* the four stores of a mixing stage, after nlfsr_offset has become off; the
\* words they read (20 .. 23) are none of the words they write (0 .. 3)
MixStore(m, off, u) ==
    [w |-> [m.w EXCEPT
              ![DRAGON_OFFSET(off, 0, DRAGON_NLFSR_SIZE - 1)] =
                  Xor(u.a, DRAGON_NLFSR_WORD(m.w, off, 20)),
              ![DRAGON_OFFSET(off, 1, DRAGON_NLFSR_SIZE - 1)] =
                  Xor(u.b, DRAGON_NLFSR_WORD(m.w, off, 21)),
              ![DRAGON_OFFSET(off, 2, DRAGON_NLFSR_SIZE - 1)] =
                  Xor(u.c, DRAGON_NLFSR_WORD(m.w, off, 22)),
              ![DRAGON_OFFSET(off, 3, DRAGON_NLFSR_SIZE - 1)] =
                  Xor(u.d, DRAGON_NLFSR_WORD(m.w, off, 23))],
     offset |-> off, e |-> u.e, f |-> u.f]

\* a variant whose stage advances nlfsr_offset by 29 words instead of 28
MixStage_Step29(m) ==
    MixStore(m, (m.offset + (DRAGON_NLFSR_SIZE - 3)) % WordMod,
             DRAGON_UPDATE(MixWord(m, 0), MixWord(m, 1), MixWord(m, 2),
                           MixWord(m, 3), m.e, m.f))

\* one pass of the mixing loop on m = [w, offset, e, f]
MixStage(m) ==
    MixStore(m, (m.offset + (DRAGON_NLFSR_SIZE - 4)) % WordMod,
             DRAGON_UPDATE(MixWord(m, 0), MixWord(m, 1), MixWord(m, 2),
                           MixWord(m, 3), m.e, m.f))

RECURSIVE MixLoop(_, _)
MixLoop(m, idx) ==
    IF idx < DRAGON_MIXING_STAGES THEN MixLoop(MixStage(m), idx + 1) ELSE m

IvInitE == 17522 % WordMod
IvInitF == 1634168686 % WordMod

\* a variant that also takes a new snapshot, of the mixed register
IvFinish_Snapshot(c, m) ==
    [c EXCEPT !.nlfsr_word = m.w,
              !.nlfsr_offset = m.offset,
              !.state_counter = <<m.e, m.f>>,
              !.init_state = m.w,
              !.full_rekeying = 0]

\* what ECRYPT_ivsetup leaves in the context, m being the outcome of the mixing loop
IvFinish(c, m) ==
    [c EXCEPT !.nlfsr_word = m.w,
              !.nlfsr_offset = m.offset,
              !.state_counter = <<m.e, m.f>>,
              !.full_rekeying = 0]

ECRYPT_ivsetup(c, iv, mem) ==
    IvFinish(c, MixLoop([w |-> IvMerge(IvRestore(c), c.key_size, iv, mem),
                         offset |-> c.nlfsr_offset,
                         e |-> IvInitE, f |-> IvInitF], 0))

----------------------------------------------------------------------------
(* The round macros *)

\* BASIC_RND, the six loads: a, c, e, b, d, f
RndLoad(w, loc_a, loc_b, loc_c, loc_d, loc_e, c1, c2) ==
    [a |-> w[loc_a],
     c |-> w[loc_c],
     e |-> Xor(w[loc_e], c1),
     b |-> Xor(w[loc_b], w[loc_a]),
     d |-> Xor(w[loc_d], w[loc_c]),
     f |-> Xor(Xor(w[loc_e + 1], Xor(w[loc_e], c1)), c2)]

\* BASIC_RND, the two feedback stores and the c2++
RndFeedback(w, loc_fb1, c2, r) ==
    [w |-> [w EXCEPT ![loc_fb1] = Add(r.b, r.e),
                     ![loc_fb1 + 1] = Xor(r.c, Add(r.b, r.e))],
     c2 |-> (c2 + 1) % WordMod,
     a |-> r.a, b |-> r.b, c |-> r.c, d |-> r.d, e |-> r.e, f |-> r.f]

\* BASIC_RND: reads six words and c1, c2; writes the two feedback words
BASIC_RND(w, loc_a, loc_b, loc_c, loc_d, loc_e, loc_fb1, c1, c2) ==
    RndFeedback(w, loc_fb1, c2,
        UpdateH(UpdateG(UpdateAddIn(
            RndLoad(w, loc_a, loc_b, loc_c, loc_d, loc_e, c1, c2)))))

\* KEYSTREAM_RND: the two u32 stored through out
KEYSTREAM_RND(r) ==
    << Xor(r.a, Add(r.f, r.c)), Xor(r.e, Add(r.d, r.a)) >>

\* a PROCESS_RND that adds the input words in instead of xoring them in
PROCESS_RND_Add(r, in0, in1) ==
    << Xor(Add(in0, r.a), Add(r.f, r.c)), Xor(Add(in1, r.e), Add(r.d, r.a)) >>

\* PROCESS_RND: the two u32 stored through out, from the two loaded through in
PROCESS_RND(r, in0, in1) ==
    << Xor(Xor(in0, r.a), Add(r.f, r.c)), Xor(Xor(in1, r.e), Add(r.d, r.a)) >>

\* the table with one index of its sixth row mistyped
DRAGON_16RND_Typo ==
    << <<0, 9, 16, 19, 30, 30>>,
       <<30, 7, 14, 17, 28, 28>>,
       <<28, 5, 12, 15, 26, 26>>,
       <<26, 3, 10, 13, 24, 24>>,
       <<24, 1, 8, 11, 22, 22>>,
       <<22, 29, 6, 9, 20, 20>>,
       <<20, 29, 4, 7, 18, 18>>,
       <<18, 27, 2, 5, 16, 16>>,
       <<16, 25, 0, 3, 14, 14>>,
       <<14, 23, 30, 1, 12, 12>>,
       <<12, 21, 28, 31, 10, 10>>,
       <<10, 19, 26, 29, 8, 8>>,
       <<8, 17, 24, 27, 6, 6>>,
       <<6, 15, 22, 25, 4, 4>>,
       <<4, 13, 20, 23, 2, 2>>,
       <<2, 11, 18, 21, 0, 0>> >>

\* DRAGON_16RND: loc_a, loc_b, loc_c, loc_d, loc_e, loc_fb1 of the 16 rounds
DRAGON_16RND ==
    << <<0, 9, 16, 19, 30, 30>>,
       <<30, 7, 14, 17, 28, 28>>,
       <<28, 5, 12, 15, 26, 26>>,
       <<26, 3, 10, 13, 24, 24>>,
       <<24, 1, 8, 11, 22, 22>>,
       <<22, 31, 6, 9, 20, 20>>,
       <<20, 29, 4, 7, 18, 18>>,
       <<18, 27, 2, 5, 16, 16>>,
       <<16, 25, 0, 3, 14, 14>>,
       <<14, 23, 30, 1, 12, 12>>,
       <<12, 21, 28, 31, 10, 10>>,
       <<10, 19, 26, 29, 8, 8>>,
       <<8, 17, 24, 27, 6, 6>>,
       <<6, 15, 22, 25, 4, 4>>,
       <<4, 13, 20, 23, 2, 2>>,
       <<2, 11, 18, 21, 0, 0>> >>

\* what one expansion of RND leaves, r being the outcome of its BASIC_RND
RndOut(process, s, row, inw, r) ==
    [w |-> r.w, c2 |-> r.c2,
     outw |-> s.outw \o (IF process
                         THEN PROCESS_RND(r, inw[2 * row - 1], inw[2 * row])
                         ELSE KEYSTREAM_RND(r))]

\* One expansion of RND in DRAGON_16RND on s = [w, c2, outw]; inw is the
\* sequence of u32 behind the in pointer (read by PROCESS_RND only).
Rnd(process, s, row, c1, inw) ==
    RndOut(process, s, row, inw,
           BASIC_RND(s.w, DRAGON_16RND[row][1], DRAGON_16RND[row][2],
                     DRAGON_16RND[row][3], DRAGON_16RND[row][4],
                     DRAGON_16RND[row][5], DRAGON_16RND[row][6], c1, s.c2))

RECURSIVE Rnd16(_, _, _, _, _)
Rnd16(process, s, row, c1, inw) ==
    IF row > Len(DRAGON_16RND) THEN s
    ELSE Rnd16(process, Rnd(process, s, row, c1, inw), row + 1, c1, inw)

\* the (c1, c2) pairs fed to the 16 rounds of one expansion of DRAGON_16RND
Rnd16Counters(c1, c2) ==
    [row \in 1 .. Len(DRAGON_16RND) |-> <<c1, (c2 + (row - 1)) % WordMod>>]

----------------------------------------------------------------------------
(* Caller buffers seen through u32 pointer casts *)

\* the u8 at index i (from 0) of a caller buffer; past its end, whatever
\* the memory behind it holds
BufByte(buf, i, mem) == IF i < Len(buf) THEN buf[i + 1] ELSE mem % ByteMod

\* the n u32 at in[0 .. n-1], in pointing at buf + pos
LoadWords(buf, pos, n, host) ==
    [k \in 1 .. n |->
        U32Load(BufByte(buf, pos + 4 * (k - 1), host.mem),
                BufByte(buf, pos + 4 * (k - 1) + 1, host.mem),
                BufByte(buf, pos + 4 * (k - 1) + 2, host.mem),
                BufByte(buf, pos + 4 * (k - 1) + 3, host.mem),
                host.bigEndian)]

\* the u8 of a sequence of u32 stored through a u32 pointer
StoreWords(ws, host) ==
    [k \in 1 .. 4 * Len(ws) |->
        U32Byte(ws[((k - 1) \div 4) + 1], (k - 1) % 4, host.bigEndian)]

----------------------------------------------------------------------------
(* ECRYPT_keystream_blocks / ECRYPT_process_blocks *)

\* the locals on entry: c1, c2 from the context, the block count, and the
\* byte offset pos of the in / out pointers
BlocksEnter(c, blocks) ==
    [c1 |-> c.state_counter[1], c2 |-> c.state_counter[2],
     blocks |-> blocks, pos |-> 0]

\* what one pass of the while loop leaves, s being the outcome of DRAGON_16RND
BlocksBodyOut(c, f, host, s) ==
    [ctx |-> [c EXCEPT !.nlfsr_word = s.w],
     frame |-> [f EXCEPT !.c2 = s.c2,
                         !.blocks = (f.blocks - 16) % WordMod,
                         !.pos = f.pos + 4 * Len(s.outw)],
     bytes |-> StoreWords(s.outw, host)]

\* one pass of: while (blocks > 0) { DRAGON_16RND(...) blocks -= 16; }
BlocksBody(c, f, process, input, host) ==
    BlocksBodyOut(c, f, host,
        Rnd16(process, [w |-> c.nlfsr_word, c2 |-> f.c2, outw |-> <<>>], 1, f.c1,
              IF process
              THEN LoadWords(input, f.pos, 2 * Len(DRAGON_16RND), host)
              ELSE <<>>))

\* a fold that stores the low word only
BlocksExit_NoCarry(c, f) ==
    [c EXCEPT !.state_counter = << c.state_counter[1], f.c2 >>]

\* the counter fold after the loop
BlocksExit(c, f) ==
    [c EXCEPT !.state_counter =
        << IF f.c2 < c.state_counter[2] THEN Add(f.c1, 1) ELSE c.state_counter[1],
           f.c2 >>]

RECURSIVE BlocksRun(_, _, _, _, _, _)
BlocksRun(c, f, process, input, host, outb) ==
    IF f.blocks > 0
    THEN LET r == BlocksBody(c, f, process, input, host)
         IN  BlocksRun(r.ctx, r.frame, process, input, host, outb \o r.bytes)
    ELSE [ctx |-> BlocksExit(c, f), out |-> outb]

\* a whole call; blocks must be a multiple of 16 for the loop to end
ECRYPT_keystream_blocks(c, blocks, host) ==
    BlocksRun(c, BlocksEnter(c, blocks), FALSE, <<>>, host, <<>>)

ECRYPT_process_blocks(action, c, input, blocks, host) ==
    BlocksRun(c, BlocksEnter(c, blocks), TRUE, input, host, <<>>)

----------------------------------------------------------------------------
(* ECRYPT_keystream_bytes / ECRYPT_process_bytes *)

\* a variant that advances the cursor before wrapping it
NextBufferIndex_Increment(buffer_index) == (buffer_index + 1) % DRAGON_BUFFER_SIZE

\* the cursor after one byte has been served
NextBufferIndex(buffer_index) == buffer_index % DRAGON_BUFFER_SIZE

\* one pass of the while loop of ECRYPT_keystream_bytes
BytesBody(c, host) ==
    LET refill == c.buffer_index = 0
        r == ECRYPT_keystream_blocks(c, DRAGON_BUFFER_SIZE, host)
        c1 == IF refill
              THEN [r.ctx EXCEPT !.keystream_buffer = r.out]
              ELSE c
    IN  [ctx |-> [c1 EXCEPT !.buffer_index = NextBufferIndex(c1.buffer_index)],
         byte |-> c1.keystream_buffer[c1.buffer_index + 1],
         refill |-> refill]

RECURSIVE BytesRun(_, _, _, _)
BytesRun(c, length, host, outb) ==
    IF length > 0
    THEN LET r == BytesBody(c, host)
         IN  BytesRun(r.ctx, length - 1, host, Append(outb, r.byte))
    ELSE [ctx |-> c, out |-> outb]

ECRYPT_keystream_bytes(c, length, host) == BytesRun(c, length, host, <<>>)

\* the loop of ECRYPT_process_bytes: output[i] ^= input[i]
XorBytes(output, input, msglen) ==
    [i \in 1 .. Len(output) |->
        IF i <= msglen THEN Xor(output[i], input[i]) ELSE output[i]]

ECRYPT_process_bytes(action, c, input, msglen, host) ==
    LET r == ECRYPT_keystream_bytes(c, msglen, host)
    IN  [ctx |-> r.ctx, out |-> XorBytes(r.out, input, msglen)]

----------------------------------------------------------------------------
(* The state machine: one ECRYPT_ctx and the calls made on it *)

VARIABLES
    host,       \* the build: byte order, and what uninitialised memory holds
    ctx,        \* the ECRYPT_ctx
    pc,         \* "idle", or the loop the running call is in
    call,       \* the running (or last) call: arguments, locals, entry context
    out,        \* the bytes the running (or last) call stored through its output pointer
    keyIn,      \* the key and keysize of the last ECRYPT_keysetup
    iv,         \* the iv of the last ECRYPT_ivsetup since then, or << >>
    snapshot,   \* nlfsr_word as the last ECRYPT_keysetup left it
    nKey,       \* calls of ECRYPT_keysetup so far
    nIv,        \* calls of ECRYPT_ivsetup since the last keysetup
    nGen,       \* block / byte calls since the last keysetup or ivsetup
    nGenPrev,   \* block / byte calls between the two last keysetup or ivsetup
    preIv,      \* block / byte calls between the last keysetup and its first ivsetup
    premix,     \* nlfsr_word as the last ECRYPT_ivsetup had it before its mixing loop
    nOps,       \* calls made so far
    fed,        \* the (c1, c2) pairs fed to rounds since the last keysetup or ivsetup
    rounds,     \* the number of rounds run since then
    repeated    \* whether one of these rounds was fed a pair fed to an earlier one

hist == <<keyIn, iv, snapshot, nKey, nIv, nGenPrev, preIv, premix>>

vars == <<host, ctx, pc, call, out, hist, nGen, nOps, fed, rounds, repeated>>

(* Bounds of the exploration *)

MaxOps == 4

MaxCalls == 1

MaxOverrun == 2

(* Inputs *)

ByteArray(n, seed) == [i \in 0 .. n - 1 |-> (seed + i * (seed + 2) + i \div 4) % ByteMod]

\* the keys, each with the keysize its caller passes
KeyInputs ==
    {[key |-> ByteArray(16, 1), keysize |-> 128],
     [key |-> ByteArray(32, 2), keysize |-> 256],
     [key |-> ByteArray(24, 3), keysize |-> 192]}

IVs == {ByteArray(32, 3), ByteArray(32, 0)}

BlockCounts == {16, 32, 8}

ByteLengths == {1, 2}

ProcessBlockCounts == {16, 8}

ProcessByteLengths == {2}

Message(n) == [i \in 1 .. n |-> (1 + i + i \div 3) % ByteMod]

Hosts == {[mem |-> 0, bigEndian |-> FALSE],
          [mem |-> (WordMod \div 3) * 2 + 1, bigEndian |-> TRUE]}

\* an ECRYPT_ctx nothing has written yet
Uninitialised(mem) ==
    [nlfsr_word |-> [i \in NlfsrIdx |-> (mem + 7 * i) % WordMod],
     init_state |-> [i \in NlfsrIdx |-> (mem + 5 * i + 1) % WordMod],
     state_counter |-> <<mem, (mem + 3) % WordMod>>,
     nlfsr_offset |-> mem,
     key_size |-> mem,
     full_rekeying |-> mem,
     buffer_index |-> mem,
     keystream_buffer |-> [i \in 1 .. DRAGON_BUFFER_BYTES |-> (mem + i) % ByteMod]]

NoFrame == [c1 |-> 0, c2 |-> 0, blocks |-> 0, pos |-> 0]

NoCall(c) ==
    [fn |-> "none", action |-> 0, req |-> 0, input |-> <<>>, entry |-> c,
     frame |-> NoFrame, length |-> 0, sweeps |-> 0]

Init ==
    /\ host \in Hosts
    /\ ctx = Uninitialised(host.mem)
    /\ pc = "idle"
    /\ call = NoCall(ctx)
    /\ out = <<>>
    /\ keyIn = [key |-> <<>>, keysize |-> 0]
    /\ iv = <<>>
    /\ snapshot = ctx.nlfsr_word
    /\ premix = ctx.nlfsr_word
    /\ nKey = 0
    /\ nIv = 0
    /\ nGenPrev = 0
    /\ preIv = 0
    /\ nGen = 0
    /\ nOps = 0
    /\ fed = {}
    /\ rounds = 0
    /\ repeated = FALSE

\* the bookkeeping of one expansion of DRAGON_16RND entered with c1, c2
FeedRounds(c1, c2) ==
    LET ps == Rnd16Counters(c1, c2)
    IN  /\ fed' = fed \cup {ps[i] : i \in DOMAIN ps}
        /\ rounds' = rounds + Len(ps)
        /\ repeated' = (repeated \/ \E i \in DOMAIN ps : ps[i] \in fed)

Keysetup(k, keysize) ==
    /\ pc = "idle"
    /\ ctx' = ECRYPT_keysetup(ctx, k, keysize, host.mem)
    /\ call' = [NoCall(ctx') EXCEPT !.fn = "keysetup"]
    /\ out' = <<>>
    /\ keyIn' = [key |-> k, keysize |-> keysize]
    /\ iv' = <<>>
    /\ snapshot' = ctx'.nlfsr_word
    /\ premix' = ctx'.nlfsr_word
    /\ nKey' = nKey + 1
    /\ nIv' = 0
    /\ nGenPrev' = nGen
    /\ preIv' = 0
    /\ nGen' = 0
    /\ nOps' = nOps + 1
    /\ fed' = {}
    /\ rounds' = 0
    /\ repeated' = FALSE
    /\ UNCHANGED <<host, pc>>

Ivsetup(v) ==
    /\ pc = "idle"
    /\ nKey > 0
    /\ ctx' = ECRYPT_ivsetup(ctx, v, host.mem)
    /\ call' = [NoCall(ctx') EXCEPT !.fn = "ivsetup"]
    /\ out' = <<>>
    /\ iv' = v
    /\ premix' = IvMerge(IvRestore(ctx), ctx.key_size, v, host.mem)
    /\ nIv' = nIv + 1
    /\ nGenPrev' = nGen
    /\ nGen' = 0
    /\ nOps' = nOps + 1
    /\ fed' = {}
    /\ rounds' = 0
    /\ repeated' = FALSE
    /\ UNCHANGED <<host, pc, keyIn, snapshot, nKey, preIv>>

\* entry of ECRYPT_keystream_blocks (input = << >>) or ECRYPT_process_blocks
BlocksCall(fn, action, input, blocks) ==
    /\ pc = "idle"
    /\ nKey > 0
    /\ pc' = "blocks"
    /\ call' = [fn |-> fn, action |-> action, req |-> blocks, input |-> input,
                entry |-> ctx, frame |-> BlocksEnter(ctx, blocks),
                length |-> 0, sweeps |-> 0]
    /\ out' = <<>>
    /\ nGen' = nGen + 1
    /\ nOps' = nOps + 1
    /\ preIv' = IF nIv = 0 THEN preIv + 1 ELSE preIv
    /\ UNCHANGED <<host, ctx, keyIn, iv, snapshot, premix, nKey, nIv, nGenPrev, fed, rounds, repeated>>

\* one pass of the while loop of the block call
BlocksStep ==
    /\ pc = "blocks"
    /\ call.frame.blocks > 0
    /\ 16 * call.sweeps < call.req + 16 * MaxOverrun
    /\ LET r == BlocksBody(ctx, call.frame, call.fn = "process_blocks",
                           call.input, host)
       IN  /\ ctx' = r.ctx
           /\ call' = [call EXCEPT !.frame = r.frame, !.sweeps = @ + 1]
           /\ out' = out \o r.bytes
    /\ FeedRounds(call.frame.c1, call.frame.c2)
    /\ UNCHANGED <<host, pc, hist, nGen, nOps>>

\* the loop of the block call has ended: fold the counters and return
BlocksReturn ==
    /\ pc = "blocks"
    /\ call.frame.blocks = 0
    /\ ctx' = BlocksExit(ctx, call.frame)
    /\ pc' = "idle"
    /\ UNCHANGED <<host, call, out, hist, nGen, nOps, fed, rounds, repeated>>

\* entry of ECRYPT_keystream_bytes (input = << >>) or ECRYPT_process_bytes
BytesCall(fn, action, input, length) ==
    /\ pc = "idle"
    /\ nKey > 0
    /\ pc' = "bytes"
    /\ call' = [fn |-> fn, action |-> action, req |-> length, input |-> input,
                entry |-> ctx, frame |-> NoFrame, length |-> length, sweeps |-> 0]
    /\ out' = <<>>
    /\ nGen' = nGen + 1
    /\ nOps' = nOps + 1
    /\ preIv' = IF nIv = 0 THEN preIv + 1 ELSE preIv
    /\ UNCHANGED <<host, ctx, keyIn, iv, snapshot, premix, nKey, nIv, nGenPrev, fed, rounds, repeated>>

\* one pass of: while ((length--) > 0) { ... }
BytesStep ==
    /\ pc = "bytes"
    /\ call.length > 0
    /\ LET r == BytesBody(ctx, host)
       IN  /\ ctx' = r.ctx
           /\ out' = Append(out, r.byte)
           /\ call' = [call EXCEPT !.length = @ - 1,
                                   !.sweeps = IF r.refill THEN @ + 1 ELSE @]
           /\ IF r.refill
              THEN FeedRounds(ctx.state_counter[1], ctx.state_counter[2])
              ELSE UNCHANGED <<fed, rounds, repeated>>
    /\ UNCHANGED <<host, pc, hist, nGen, nOps>>

\* the loop has ended; ECRYPT_process_bytes then xors the input in
BytesReturn ==
    /\ pc = "bytes"
    /\ call.length = 0
    /\ out' = IF call.fn = "process_bytes"
              THEN XorBytes(out, call.input, call.req)
              ELSE out
    /\ pc' = "idle"
    /\ UNCHANGED <<host, ctx, call, hist, nGen, nOps, fed, rounds, repeated>>

CanCall == nOps < MaxOps

Next ==
    \/ \E k \in KeyInputs :
          CanCall /\ Keysetup(k.key, k.keysize)
    \/ \E v \in IVs :
          CanCall /\ Ivsetup(v)
    \/ \E blocks \in BlockCounts :
          CanCall /\ nGen < MaxCalls
          /\ BlocksCall("keystream_blocks", 0, <<>>, blocks)
    \/ \E blocks \in ProcessBlockCounts, action \in {0, 1} :
          CanCall /\ nGen < MaxCalls
          /\ BlocksCall("process_blocks", action, Message(8 * blocks), blocks)
    \/ \E length \in ByteLengths :
          CanCall /\ nGen < MaxCalls
          /\ BytesCall("keystream_bytes", 0, <<>>, length)
    \/ \E length \in ProcessByteLengths, action \in {0, 1} :
          CanCall /\ nGen < MaxCalls
          /\ BytesCall("process_bytes", action, Message(length), length)
    \/ BlocksStep
    \/ BlocksReturn
    \/ BytesStep
    \/ BytesReturn

Spec == Init /\ [][Next]_vars

----------------------------------------------------------------------------
(* Long calls on one key and one iv: whole staging buffers, counter wraparound *)

MaxLongCalls == 2

LongBlockCounts == {32, WordMod - 16}

LongByteLengths == {DRAGON_BUFFER_BYTES}

LongIVs == {ByteArray(32, 3)}

NextLong ==
    \/ \E k \in KeyInputs :
          nKey = 0 /\ k.keysize = 128 /\ Keysetup(k.key, k.keysize)
    \/ \E v \in LongIVs :
          nKey > 0 /\ nIv = 0 /\ Ivsetup(v)
    \/ \E blocks \in LongBlockCounts :
          nIv > 0 /\ nGen < MaxLongCalls
          /\ BlocksCall("keystream_blocks", 0, <<>>, blocks)
    \/ \E length \in LongByteLengths :
          nIv > 0 /\ nGen < MaxLongCalls
          /\ BytesCall("keystream_bytes", 0, <<>>, length)
    \/ BlocksStep
    \/ BlocksReturn
    \/ BytesStep
    \/ BytesReturn

SpecLong == Init /\ [][NextLong]_vars

----------------------------------------------------------------------------
(* Reference runs, on a second context whose memory held something else *)

OtherMem(mem) == (mem + (WordMod \div 2) + 1) % WordMod

\* ECRYPT_keysetup then ECRYPT_ivsetup on a context nothing has written yet
FreshCtx(k, v) ==
    ECRYPT_ivsetup(
        ECRYPT_keysetup(Uninitialised(OtherMem(host.mem)), k.key, k.keysize, host.mem),
        v, host.mem)

\* what of a context decides the keystream of the block calls
CipherState(c) ==
    [nlfsr_word |-> c.nlfsr_word,
     offset |-> c.nlfsr_offset % DRAGON_NLFSR_SIZE,
     state_counter |-> c.state_counter]

IsBlocksCall == call.fn \in {"keystream_blocks", "process_blocks"}

IsBytesCall == call.fn \in {"keystream_bytes", "process_bytes"}

\* the last call has returned
Returned == pc = "idle"

\* the running (or last) call was the first block / byte call after an ivsetup
FirstCallAfterIv == nIv > 0 /\ nGen = 1

\* no block / byte call came between the keysetup and its first ivsetup
IvAfterKey == nIv > 0 /\ preIv = 0

----------------------------------------------------------------------------
(* C1 *)

\* C1: a keystream_bytes call for a multiple of 128 bytes returns, byte for
\* byte, what keystream_blocks writes for length / 8 blocks from the same
\* context.
C1_ByteBlockEquivalence ==
    (Returned /\ call.fn = "keystream_bytes"
        /\ call.req > 0 /\ call.req % DRAGON_BUFFER_BYTES = 0)
    => out = ECRYPT_keystream_blocks(call.entry, call.req \div 8, host).out

----------------------------------------------------------------------------
(* C2 *)

\* C2: after n bytes served from a freshly keyed and IV'd context the cursor
\* is n mod 128 and exactly ceil(n / 128) refills have run.
C2_CursorAndRefills ==
    (IsBytesCall /\ FirstCallAfterIv /\ IvAfterKey)
    => /\ ctx.buffer_index = Len(out) % DRAGON_BUFFER_BYTES
       /\ call.sweeps = (Len(out) + DRAGON_BUFFER_BYTES - 1) \div DRAGON_BUFFER_BYTES

----------------------------------------------------------------------------
(* C3 *)

JustIvsetup == Returned /\ call.fn = "ivsetup"

\* C3 as stated: after any earlier ivsetup, block and byte calls on a keyed
\* context, ivsetup leaves the NLFSR, the effective offset and the counters
\* as keysetup then ivsetup leave them on a fresh context.
C3_MessageIndependence ==
    JustIvsetup => CipherState(ctx) = CipherState(FreshCtx(keyIn, iv))

\* C3 amended: the same, unless this is the first ivsetup after the keysetup
\* and a block or byte call was made between the two.
C3_MessageIndependenceAfterFirstIv ==
    (JustIvsetup /\ ~(nIv = 1 /\ preIv > 0))
    => CipherState(ctx) = CipherState(FreshCtx(keyIn, iv))

\* an ivsetup that followed a block or byte call made after an earlier ivsetup
C3_Witness ==
    /\ JustIvsetup
    /\ nIv >= 2
    /\ nGenPrev > 0
    /\ CipherState(ctx) = CipherState(FreshCtx(keyIn, iv))
    /\ ctx.nlfsr_word # ctx.init_state

----------------------------------------------------------------------------
(* C4: the same call encrypts and decrypts *)

IsProcessCall == call.fn \in {"process_blocks", "process_bytes"}

\* C4: when a process_blocks or process_bytes call made on a key/iv-initialised
\* context has returned, the same call made again on the context as it was on
\* entry, with either action value, maps the output back to the input, and
\* maps the input to the same output whatever the action value is.
C4_SelfInverse ==
    (Returned /\ IsProcessCall /\ nIv > 0)
    => \A action \in {0, 1} :
          IF call.fn = "process_blocks"
          THEN /\ ECRYPT_process_blocks(action, call.entry, out, call.req, host).out
                     = call.input
               /\ ECRYPT_process_blocks(action, call.entry, call.input, call.req, host).out
                     = out
          ELSE /\ ECRYPT_process_bytes(action, call.entry, out, call.req, host).out
                     = call.input
               /\ ECRYPT_process_bytes(action, call.entry, call.input, call.req, host).out
                     = out

\* a process call returned after an ivsetup, and it changed what it was given
C4_Witness ==
    /\ Returned /\ IsProcessCall /\ nIv > 0
    /\ call.action = 1
    /\ Len(out) = Len(call.input)
    /\ out # call.input

----------------------------------------------------------------------------
(* C5: the counter pair fed to the rounds *)

\* C5: after an ivsetup, as long as fewer than 2^(2 * WordBits) rounds have run,
\* no round of any block or byte call has been fed a (c1, c2) pair that an
\* earlier round since that ivsetup was fed.
C5_CounterNonRepetition ==
    (nIv > 0 /\ rounds <= WordMod * WordMod) => ~repeated

----------------------------------------------------------------------------
(* C6: block counts that are no multiple of 16 *)

\* C6: a block call made after an ivsetup with a block count that is not a
\* multiple of 16 runs no round:
\* the context stays as it was on entry and no output byte is stored.
C6_BadBlockCountRejected ==
    (IsBlocksCall /\ nIv > 0 /\ call.req % DRAGON_BUFFER_SIZE # 0)
    => /\ call.sweeps = 0
       /\ ctx = call.entry
       /\ out = <<>>

----------------------------------------------------------------------------
(* C7: key sizes other than 128 and 256 *)

SupportedKey == keyIn.keysize \in {128, 256}

\* the key of the last keysetup is in the snapshot, in the layout of 256-bit keys
KeyedAs256 ==
    \A i \in 0 .. 23 :
        ctx.init_state[i] = KeyWord(keyIn.key, i % 8, host.mem)

----------------------------------------------------------------------------
(* C8: determinism *)

\* the call ECRYPT_keystream_blocks / ECRYPT_keystream_bytes that has returned,
\* made instead on the reference context
ReferenceRun ==
    IF call.fn = "keystream_blocks"
    THEN ECRYPT_keystream_blocks(FreshCtx(keyIn, iv), call.req, host)
    ELSE ECRYPT_keystream_bytes(FreshCtx(keyIn, iv), call.req, host)

\* C8: for a supported key size, keysetup then ivsetup leave the register, the
\* offset, both counters and the staging cursor as they leave them on a context
\* whose memory held something else before, and the keystream call that
\* follows returns the same bytes and leaves the same cipher state and cursor on both.
C8_Determinism ==
    /\ (JustIvsetup /\ SupportedKey /\ IvAfterKey)
       => /\ CipherState(ctx) = CipherState(FreshCtx(keyIn, iv))
          /\ ctx.buffer_index = FreshCtx(keyIn, iv).buffer_index
    /\ (Returned /\ call.fn \in {"keystream_blocks", "keystream_bytes"}
          /\ SupportedKey /\ IvAfterKey /\ FirstCallAfterIv)
       => /\ out = ReferenceRun.out
          /\ CipherState(ctx) = CipherState(ReferenceRun.ctx)
          /\ ctx.buffer_index = ReferenceRun.ctx.buffer_index

\* a keystream call returned its bytes on a context that had been in use
\* before the keysetup, and whose untouched words differ from the reference's
C8_Witness ==
    /\ Returned /\ call.fn \in {"keystream_blocks", "keystream_bytes"}
    /\ SupportedKey /\ IvAfterKey /\ FirstCallAfterIv
    /\ nKey >= 2
    /\ Len(out) > 0
    /\ out = ReferenceRun.out
    /\ ctx.init_state # FreshCtx(keyIn, iv).init_state

----------------------------------------------------------------------------
(* C9: termination within the requested length *)

\* C9: after an ivsetup, a block call runs at most ceil(blocks / 16) sweeps and a byte call at
\* most one sweep per requested byte.
C9_SweepsBoundedByLength ==
    /\ (IsBlocksCall /\ nIv > 0)
       => call.sweeps <= (call.req + DRAGON_BUFFER_SIZE - 1) \div DRAGON_BUFFER_SIZE
    /\ (IsBytesCall /\ nIv > 0) => call.sweeps <= call.req

----------------------------------------------------------------------------
(* C10: the key snapshot *)

\* C10: once a keysetup has run, init_state is the register as the most recent
\* keysetup left it and key_size is the keysize it was given, whatever ivsetup,
\* block and byte calls have run since.
C10_SnapshotOnlyByKeysetup ==
    nKey > 0 => (ctx.init_state = snapshot /\ ctx.key_size = keyIn.keysize)

\* an ivsetup and a block or byte call have run since the second keysetup, and
\* moved the register away from the snapshot
C10_Witness ==
    /\ Returned /\ nKey >= 2 /\ nIv > 0 /\ nGen > 0
    /\ ctx.nlfsr_word # snapshot
    /\ ctx.init_state = snapshot

----------------------------------------------------------------------------
(* C11: the counter fold *)

\* state_counter[0] * 2^WordBits + state_counter[1]
Counter64(c) == c.state_counter[1] * WordMod + c.state_counter[2]

\* C11: when a block call of n blocks has returned, the double-width counter
\* is its value on entry plus n, modulo 2^(2 * WordBits), and the high word
\* has been incremented exactly when the low word ended below its entry value.
C11_CounterFold ==
    (Returned /\ IsBlocksCall)
    => /\ Counter64(ctx) = (Counter64(call.entry) + call.req) % (WordMod * WordMod)
       /\ ctx.state_counter[1] =
            IF ctx.state_counter[2] < call.entry.state_counter[2]
            THEN Add(call.entry.state_counter[1], 1)
            ELSE call.entry.state_counter[1]

\* a block call made after an ivsetup has returned, and the low word wrapped in it
C11_Witness ==
    /\ Returned /\ IsBlocksCall /\ nIv > 0
    /\ call.req > 0
    /\ ctx.state_counter[2] < call.entry.state_counter[2]
    /\ ctx.state_counter[1] = Add(call.entry.state_counter[1], 1)

----------------------------------------------------------------------------
(* C12: the sweep as a shift register that steps back by 2 per micro-round *)

MicroRounds == 0 .. 15

\* the physical slot of logical position pos in micro-round i: the register
\* has stepped back by 2 * i
ShiftLoc(i, pos) ==
    DRAGON_OFFSET((WordMod - 2 * i) % WordMod, pos, DRAGON_NLFSR_SIZE - 1)

\* the six words of micro-round i, read at logical 0, 9, 16, 19, 30, 31
ShiftLoad(w, i, c1, c2) ==
    [a |-> w[ShiftLoc(i, 0)],
     c |-> w[ShiftLoc(i, 16)],
     e |-> Xor(w[ShiftLoc(i, 30)], c1),
     b |-> Xor(w[ShiftLoc(i, 9)], w[ShiftLoc(i, 0)]),
     d |-> Xor(w[ShiftLoc(i, 19)], w[ShiftLoc(i, 16)]),
     f |-> Xor(Xor(w[ShiftLoc(i, 31)], Xor(w[ShiftLoc(i, 30)], c1)), c2)]

\* the two feedback words of micro-round i, written at logical 30, 31
ShiftStore(w, i, c2, r) ==
    [w |-> [w EXCEPT ![ShiftLoc(i, 30)] = Add(r.b, r.e),
                     ![ShiftLoc(i, 31)] = Xor(r.c, Add(r.b, r.e))],
     c2 |-> (c2 + 1) % WordMod,
     a |-> r.a, b |-> r.b, c |-> r.c, d |-> r.d, e |-> r.e, f |-> r.f]

\* micro-round i on s = [w, c2, outw]
ShiftRnd(process, s, i, c1, inw) ==
    RndOut(process, s, i + 1, inw,
           ShiftStore(s.w, i, s.c2,
               UpdateH(UpdateG(UpdateAddIn(ShiftLoad(s.w, i, c1, s.c2))))))

RECURSIVE ShiftSweep(_, _, _, _, _)
ShiftSweep(process, s, i, c1, inw) ==
    IF i \notin MicroRounds THEN s
    ELSE ShiftSweep(process, ShiftRnd(process, s, i, c1, inw), i + 1, c1, inw)

\* the sweep of the block call of 16 blocks that has returned, as the shift
\* register makes it from the context the call was entered with
TableSweep ==
    ShiftSweep(call.fn = "process_blocks",
               [w |-> call.entry.nlfsr_word, c2 |-> call.entry.state_counter[2],
                outw |-> <<>>],
               0, call.entry.state_counter[1],
               LoadWords(call.input, 0, 2 * Len(DRAGON_16RND), host))

\* the slots round i of DRAGON_16RND reads, and the slots it writes
SlotsRead(i) ==
    {DRAGON_16RND[i + 1][k] : k \in 1 .. 5} \cup {DRAGON_16RND[i + 1][5] + 1}

SlotsWritten(i) == {DRAGON_16RND[i + 1][6], DRAGON_16RND[i + 1][6] + 1}

\* C12: round i of the unrolled sweep reads the slots (0, 9, 16, 19, 30, 31) - 2i
\* mod 32 and writes the slots (30 - 2i, 31 - 2i) mod 32; every index is in
\* 0 .. 31 and each of the 32 slots is written by exactly one round; and a
\* block call of 16 blocks leaves the register and the output bytes that the
\* shift register, stepping back by 2 per micro-round, leaves.
C12_UnrolledSweepIsShiftRegister ==
    /\ Len(DRAGON_16RND) = Cardinality(MicroRounds)
    /\ \A i \in MicroRounds :
          /\ DRAGON_16RND[i + 1] =
                << ShiftLoc(i, 0), ShiftLoc(i, 9), ShiftLoc(i, 16),
                   ShiftLoc(i, 19), ShiftLoc(i, 30), ShiftLoc(i, 30) >>
          /\ DRAGON_16RND[i + 1][5] + 1 = ShiftLoc(i, 31)
          /\ DRAGON_16RND[i + 1][6] + 1 = ShiftLoc(i, 31)
          /\ SlotsRead(i) \cup SlotsWritten(i) \subseteq NlfsrIdx
    /\ \A j \in NlfsrIdx :
          Cardinality({i \in MicroRounds : j \in SlotsWritten(i)}) = 1
    /\ (Returned /\ IsBlocksCall /\ call.req = DRAGON_BUFFER_SIZE)
       => /\ ctx.nlfsr_word = TableSweep.w
          /\ out = StoreWords(TableSweep.outw, host)

\* a block call of one sweep has returned after an ivsetup, with a register
\* rewritten as the shift register rewrites it
C12_Witness ==
    /\ Returned /\ call.fn = "process_blocks" /\ call.req = DRAGON_BUFFER_SIZE
    /\ nIv > 0
    /\ Len(out) = DRAGON_BUFFER_BYTES
    /\ ctx.nlfsr_word = TableSweep.w
    /\ Cardinality({j \in NlfsrIdx : ctx.nlfsr_word[j] # call.entry.nlfsr_word[j]})
          >= DRAGON_NLFSR_SIZE - 4

----------------------------------------------------------------------------
(* C13: the key / iv layout before mixing *)

\* the first n words of the key of the last keysetup, and of the iv of the last ivsetup
KeyWords(n) == [j \in 0 .. n - 1 |-> KeyWord(keyIn.key, j, host.mem)]

IvWords(n) == [j \in 0 .. n - 1 |-> IvWord(iv, j, host.mem)]

\* x', the four words x with the two halves swapped
HalfSwap(x) == [j \in 0 .. 3 |-> x[(j + 2) % 4]]

\* k | k' ^ iv' | iv | k ^ iv' | k' | k ^ iv | iv' | k' ^ iv
Layout128(k, v) ==
    [i \in NlfsrIdx |->
        CASE i \div 4 = 0 -> k[i % 4]
          [] i \div 4 = 1 -> Xor(HalfSwap(k)[i % 4], HalfSwap(v)[i % 4])
          [] i \div 4 = 2 -> v[i % 4]
          [] i \div 4 = 3 -> Xor(k[i % 4], HalfSwap(v)[i % 4])
          [] i \div 4 = 4 -> HalfSwap(k)[i % 4]
          [] i \div 4 = 5 -> Xor(k[i % 4], v[i % 4])
          [] i \div 4 = 6 -> HalfSwap(v)[i % 4]
          [] i \div 4 = 7 -> Xor(HalfSwap(k)[i % 4], v[i % 4])]

\* k | k ^ iv | {k ^ iv} | iv
Layout256(k, v) ==
    [i \in NlfsrIdx |->
        CASE i \div 8 = 0 -> k[i % 8]
          [] i \div 8 = 1 -> Xor(k[i % 8], v[i % 8])
          [] i \div 8 = 2 -> Xor(Xor(k[i % 8], v[i % 8]), WordMax)
          [] i \div 8 = 3 -> v[i % 8]]

\* the layout of the key of the last keysetup and the iv of the last ivsetup
KeyIvLayout ==
    IF keyIn.keysize = 128
    THEN Layout128(KeyWords(4), IvWords(4))
    ELSE Layout256(KeyWords(8), IvWords(8))

\* C13: whenever an ivsetup has returned on a context keyed with 128 or 256
\* bits, the register it had before its first mixing stage was the layout of
\* the key and the iv.
C13_LayoutBeforeMixing ==
    (JustIvsetup /\ SupportedKey) => premix = KeyIvLayout

\* C13 as the code has it: the same, except on the first ivsetup after a
\* keysetup when a block or byte call was made between the two.
C13_LayoutBeforeMixingAfterKeyOrIv ==
    (JustIvsetup /\ SupportedKey /\ ~(nIv = 1 /\ preIv > 0))
    => premix = KeyIvLayout

\* a later ivsetup, after keystream was drawn under the previous iv, merged a
\* 128-bit key and the iv into the layout
C13_Witness ==
    /\ JustIvsetup /\ keyIn.keysize = 128
    /\ nIv >= 2 /\ nGenPrev > 0
    /\ premix = Layout128(KeyWords(4), IvWords(4))
    /\ premix # snapshot

----------------------------------------------------------------------------
(* C14: skipping the restore *)

\* a block or byte call has been made since the last keysetup, and no ivsetup
BlocksBeforeFirstIv == nIv = 0 /\ preIv > 0

\* C14: in every state after a keysetup in which full_rekeying is 1, the
\* register equals the snapshot.
C14_RestoreSkipSafe ==
    (nKey > 0 /\ ctx.full_rekeying = 1) => ctx.nlfsr_word = ctx.init_state

\* C14 as the code has it: full_rekeying is 1 from a keysetup to the next
\* ivsetup and 0 afterwards; unless a block or byte call has been made since
\* the keysetup and no ivsetup, the register equals the snapshot whenever
\* full_rekeying is 1, so that the register an ivsetup merges the iv into is
\* the snapshot.
C14_RestoreSkipSafeBeforeBlocks ==
    nKey > 0
    => /\ ctx.full_rekeying = (IF nIv = 0 THEN 1 ELSE 0)
       /\ ~BlocksBeforeFirstIv
          => /\ ctx.full_rekeying = 1 => ctx.nlfsr_word = ctx.init_state
             /\ IvRestore(ctx) = ctx.init_state

\* a context that had served an iv and a block or byte call was keyed again:
\* full_rekeying is 1 and the register is the new snapshot
C14_Witness ==
    /\ Returned /\ call.fn = "keysetup"
    /\ nKey >= 2 /\ nGenPrev > 0
    /\ ctx.full_rekeying = 1
    /\ ctx.nlfsr_word = ctx.init_state
    /\ IvRestore(ctx) = snapshot

----------------------------------------------------------------------------
(* C15: offset alignment *)

\* what the mixing loop of one ECRYPT_ivsetup adds to nlfsr_offset
IvOffsetAdvance == DRAGON_MIXING_STAGES * (DRAGON_NLFSR_SIZE - 4)

\* the logical index i of the register is the physical slot i
OffsetAligned(c) ==
    /\ c.nlfsr_offset % DRAGON_NLFSR_SIZE = 0
    /\ \A i \in NlfsrIdx :
         DRAGON_OFFSET(c.nlfsr_offset, i, DRAGON_NLFSR_SIZE - 1) = i

\* C15: whenever ECRYPT_ivsetup returns, also once the offset has wrapped
\* around its word, nlfsr_offset is a multiple of 32, so that the absolute
\* slot numbers of the sweep are the logical indices; the offset is the
\* number of ivsetups since the keysetup times 448, reduced to a word.
C15_OffsetAlignedAfterIvsetup ==
    JustIvsetup
    => /\ OffsetAligned(ctx)
       /\ ctx.nlfsr_offset = (nIv * IvOffsetAdvance) % WordMod

\* a second ivsetup on the same key has returned, and the offset has wrapped
C15_Witness ==
    /\ JustIvsetup /\ nIv >= 2
    /\ nIv * IvOffsetAdvance >= WordMod
    /\ ctx.nlfsr_offset = (nIv * IvOffsetAdvance) % WordMod
    /\ ctx.nlfsr_offset # 0
    /\ OffsetAligned(ctx)

----------------------------------------------------------------------------
(* C16: the staging buffer across messages *)

\* Messages on one key: an ivsetup, one byte call, the next ivsetup, ...
MaxMessages == 3

MessageByteLengths == {1, 2, 3}

NextMessages ==
    \/ \E k \in KeyInputs :
          nKey = 0 /\ Keysetup(k.key, k.keysize)
    \/ \E v \in IVs :
          nIv < MaxMessages /\ Ivsetup(v)
    \/ \E length \in MessageByteLengths :
          nIv > 0 /\ nGen = 0
          /\ BytesCall("keystream_bytes", 0, <<>>, length)
    \/ BytesStep
    \/ BytesReturn

SpecMessages == Init /\ [][NextMessages]_vars

\* byte 0 of the keystream of the current key and iv
FirstKeystreamByte ==
    ECRYPT_keystream_blocks(FreshCtx(keyIn, iv), DRAGON_BUFFER_SIZE, host).out[1]

\* the first byte call since the last ivsetup has served a byte
ServedAfterIv ==
    /\ IsBytesCall /\ call.fn = "keystream_bytes"
    /\ nIv > 0 /\ nGen = 1
    /\ ~(nIv = 1 /\ preIv > 0)
    /\ Len(out) >= 1

\* C16: the first byte ECRYPT_keystream_bytes returns after an ivsetup is
\* byte 0 of the keystream of the new iv and a refill precedes it, whatever
\* the byte adapter served before that ivsetup; all the bytes of the call are
\* the ones the same call returns on a freshly keyed context with that iv.
C16_NoStaleByteAfterIvsetup ==
    ServedAfterIv
    => /\ call.entry.buffer_index = 0
       /\ call.sweeps >= 1
       /\ out[1] = FirstKeystreamByte
       /\ out = ECRYPT_keystream_bytes(FreshCtx(keyIn, iv), Len(out), host).out

\* bytes were served under an earlier iv, the context was given a new iv, and
\* the byte served now differs from the one the buffer held at the call
C16_Witness ==
    /\ ServedAfterIv
    /\ nIv >= 2 /\ nGenPrev > 0
    /\ call.sweeps >= 1
    /\ out[1] = FirstKeystreamByte
    /\ call.entry.keystream_buffer[1] # out[1]

====
